---------------------------- MODULE Spec2Model ----------------------------
(***************************************************************************)
(* A model of server.js, the RSS aggregation hub: the per-source fetch,    *)
(* the aggregation pipeline (merge, sort, dedup, cap), the XML renderer,   *)
(* the process-wide cache and the HTTP handlers and timers that use it.    *)
(* GET / answers with a constant and is left out.                          *)
(*                                                                         *)
(* JavaScript strings are sequences of one-character strings.  A value     *)
(* that is `undefined` in the program is the distinguished value of its    *)
(* type (Undefined for strings, NoDate for date strings, Null for the      *)
(* cache variables).                                                       *)
(***************************************************************************)
EXTENDS Integers, Sequences, FiniteSets, TLC

VARIABLES
    now,         \* the wall clock, in milliseconds (Date.now())
    cachedFeed,  \* server.js:43
    lastUpdate,  \* server.js:44
    cacheBy,     \* which run assigned cachedFeed, and which lastUpdate
    runs,        \* the aggregation runs in flight: id -> its origin and fetches
    nextRun,     \* the number of aggregation runs started so far, plus one
    reqs,        \* the GET /rss and GET /json requests: what each found and started
    sent,        \* the response the last step sent, if any
    lastCron,    \* the minute boundary the scheduler last fired at
    lastDone,    \* the refresh that completed last: how its run went, what it wrote
    upstream,    \* aggregation pipeline alone: what each source serves
    agg          \* aggregation pipeline alone: the stages' results

vars == <<now, cachedFeed, lastUpdate, cacheBy, runs, nextRun, reqs, sent, lastCron,
          lastDone, upstream, agg>>

serverVars == <<now, cachedFeed, lastUpdate, cacheBy, runs, nextRun, reqs, sent, lastCron,
                lastDone>>

aggVars == <<upstream, agg>>

-----------------------------------------------------------------------------
(* Strings.                                                                *)

\* A string is the sequence of its UTF-16 code units.  A code unit is written
\* as the character itself where a TLA+ string can hold it, and by its name,
\* "U+212A", otherwise.
\* `undefined` where the program expects a string: no code unit is written
\* "undefined".
Undefined == <<"undefined">>

\* JavaScript's falsy strings: undefined and ''.
Falsy(s) == s = Undefined \/ s = <<>>

\* a || b on strings.
OrElse(a, b) == IF Falsy(a) THEN b ELSE a

UpperCase == <<"A","B","C","D","E","F","G","H","I","J","K","L","M",
               "N","O","P","Q","R","S","T","U","V","W","X","Y","Z">>

LowerCase == <<"a","b","c","d","e","f","g","h","i","j","k","l","m",
               "n","o","p","q","r","s","t","u","v","w","x","y","z">>

Digit == <<"0","1","2","3","4","5","6","7","8","9">>

Range(f) == {f[i] : i \in DOMAIN f}

\* The ASCII characters that are neither letters nor digits (the control
\* characters among them that a TLA+ string can hold).
AsciiOther ==
    {" ", "\t", "\n", "\r", "\f", "U+000B",
     "!", "\"", "#", "$", "%", "&", "'", "(", ")", "*", "+", ",", "-", ".", "/",
     ":", ";", "<", "=", ">", "?", "@", "[", "\\", "]", "^", "_", "U+0060",
     "{", "|", "}", "~"}

\* The white space of the regular expression class \s.
SpaceUnits ==
    {" ", "\t", "\n", "\r", "\f", "U+000B", "U+00A0", "U+1680",
     "U+2000", "U+2001", "U+2002", "U+2003", "U+2004", "U+2005", "U+2006",
     "U+2007", "U+2008", "U+2009", "U+200A", "U+2028", "U+2029", "U+202F",
     "U+205F", "U+3000", "U+FEFF"}

\* Code units outside ASCII that lower-casing leaves as they are: the white
\* space, e with acute, the combining dot above.
NonAsciiUnchanged == (SpaceUnits \ AsciiOther) \cup {"U+00E9", "U+0307"}

\* String.prototype.toLowerCase on one code unit: the code units it becomes.
\* Outside ASCII the table holds the Kelvin sign, the capital I with dot
\* above (which becomes two code units) and the capital E with acute; the
\* operator is defined on no other code unit outside ASCII.
ToLowerChar(c) ==
    CASE c \in Range(UpperCase) -> <<LowerCase[CHOOSE i \in 1..26 : UpperCase[i] = c]>>
      [] c = "U+212A" -> <<"k">>
      [] c = "U+0130" -> <<"i", "U+0307">>
      [] c = "U+00C9" -> <<"U+00E9">>
      [] c \in Range(LowerCase) \cup Range(Digit) \cup AsciiOther \cup NonAsciiUnchanged
           -> <<c>>

RECURSIVE toLowerCase(_)
toLowerCase(s) ==
    IF s = <<>> THEN <<>> ELSE ToLowerChar(Head(s)) \o toLowerCase(Tail(s))

\* The regular expression classes \w (the ASCII letters, digits and the
\* underscore) and \s.
IsWordChar(c) == c \in Range(UpperCase) \cup Range(LowerCase) \cup Range(Digit) \cup {"_"}

IsSpaceChar(c) == c \in SpaceUnits

\* str.replace(/[^\w\s]/g, '')
RECURSIVE StripNonWord(_)
StripNonWord(s) ==
    IF s = <<>> THEN <<>>
    ELSE LET rest == StripNonWord(Tail(s))
         IN  IF IsWordChar(Head(s)) \/ IsSpaceChar(Head(s))
             THEN <<Head(s)>> \o rest
             ELSE rest

\* server.js:99, for a title that is a string.
normalizedTitle(title) == StripNonWord(toLowerCase(title))

\* str.replace(/c/g, entity) for a one-character pattern.
RECURSIVE ReplaceAll(_, _, _)
ReplaceAll(s, c, entity) ==
    IF s = <<>> THEN <<>>
    ELSE (IF Head(s) = c THEN entity ELSE <<Head(s)>>) \o ReplaceAll(Tail(s), c, entity)

\* escapeXML with the ampersand replaced last.
escapeXMLAmpLast(str) ==
    IF Falsy(str) THEN <<>>
    ELSE LET s1 == ReplaceAll(str, "<", <<"&","l","t",";">>)
             s2 == ReplaceAll(s1, ">", <<"&","g","t",";">>)
             s3 == ReplaceAll(s2, "\"", <<"&","q","u","o","t",";">>)
             s4 == ReplaceAll(s3, "'", <<"&","#","3","9",";">>)
         IN  ReplaceAll(s4, "&", <<"&","a","m","p",";">>)

\* server.js:150-158
escapeXML(str) ==
    IF Falsy(str) THEN <<>>
    ELSE LET s1 == ReplaceAll(str, "&", <<"&","a","m","p",";">>)
             s2 == ReplaceAll(s1, "<", <<"&","l","t",";">>)
             s3 == ReplaceAll(s2, ">", <<"&","g","t",";">>)
             s4 == ReplaceAll(s3, "\"", <<"&","q","u","o","t",";">>)
         IN  ReplaceAll(s4, "'", <<"&","#","3","9",";">>)

-----------------------------------------------------------------------------
(* Dates.  A date string is modelled by what Date makes of it: the time    *)
(* value it parses to, or that it does not parse (Invalid Date, NaN).      *)

NoDate == [kind |-> "undefined", ms |-> 0]

BadDate == [kind |-> "unparseable", ms |-> 0]

DateStr(t) == [kind |-> "date", ms |-> t]

\* a.pubDate || item.isoDate on date strings.
OrElseDate(a, b) == IF a = NoDate THEN b ELSE a

\* new Date(p || 0): the time value, or NaN.
NewDate(p) ==
    IF p = NoDate THEN [nan |-> FALSE, t |-> 0]
    ELSE IF p.kind = "unparseable" THEN [nan |-> TRUE, t |-> 0]
    ELSE [nan |-> FALSE, t |-> p.ms]

-----------------------------------------------------------------------------
(* The source registry.                                                    *)

RSS_SOURCES == <<
    [name |-> <<"H","a","r","v","a","r","d"," ","B","u","s","i","n","e","s","s"," ",
                "R","e","v","i","e","w">>,
     url |-> "http://feeds.harvardbusiness.org/harvardbusiness?format=xml",
     category |-> <<"B","u","s","i","n","e","s","s"," ","S","t","r","a","t","e","g","y">>],
    [name |-> <<"C","N","B","C">>,
     url |-> "https://www.cnbc.com/id/100003114/device/rss/rss.html",
     category |-> <<"M","a","r","k","e","t","s"," ","&"," ","B","u","s","i","n","e","s","s">>],
    [name |-> <<"F","i","n","a","n","c","i","a","l"," ","T","i","m","e","s">>,
     url |-> "https://www.ft.com/rss/home",
     category |-> <<"G","l","o","b","a","l"," ","F","i","n","a","n","c","e">>],
    [name |-> <<"B","l","o","o","m","b","e","r","g">>,
     url |-> "https://feeds.bloomberg.com/markets/news.rss",
     category |-> <<"M","a","r","k","e","t","s">> ] >>

\* The sources by position in RSS_SOURCES.
SourceIds == 1..Len(RSS_SOURCES)

AllSources == [i \in SourceIds |-> i]

-----------------------------------------------------------------------------
(* The fetcher.  What parser.parseURL does for one source is an outcome:   *)
(* it throws (network error, timeout, malformed document), or it returns   *)
(* the feed's entries.                                                     *)

Failed == [ok |-> FALSE, items |-> <<>>]

Feed(entries) == [ok |-> TRUE, items |-> entries]

\* server.js:53-61, one upstream entry to one item.
MapItem(source, item) ==
    [title       |-> item.title,
     link        |-> item.link,
     pubDate     |-> OrElseDate(item.pubDate, item.isoDate),
     description |-> OrElse(OrElse(item.contentSnippet, item.content), <<>>),
     source      |-> source.name,
     category    |-> source.category,
     guid        |-> OrElse(item.guid, item.link)]

\* feed.items.map(...) over the entries lo..hi, in order.  (The loops over
\* an array are written by halves, which keeps the evaluation shallow; the
\* elements are visited in the array's order.)
RECURSIVE MapItems(_, _, _, _)
MapItems(source, items, lo, hi) ==
    IF lo > hi THEN <<>>
    ELSE IF lo = hi THEN <<MapItem(source, items[lo])>>
    ELSE LET mid == (lo + hi) \div 2
         IN  MapItems(source, items, lo, mid) \o MapItems(source, items, mid + 1, hi)

\* server.js:48-66: the items of a source, [] when the fetch throws.
fetchFeed(source, outcome) ==
    IF outcome.ok
    THEN MapItems(source, outcome.items, 1, Len(outcome.items))
    ELSE <<>>

-----------------------------------------------------------------------------
(* The aggregator: merge, sort, dedup, cap (server.js:69-113).             *)

\* server.js:107, the cap of slice(0, 100).
MAX_ITEMS == 100

\* server.js:78-85: the fulfilled results concatenated in source-list order.
\* fetchFeed never rejects, so every result is fulfilled.
RECURSIVE ConcatResults(_, _, _)
ConcatResults(sources, outcomes, i) ==
    IF i > Len(sources) THEN <<>>
    ELSE fetchFeed(RSS_SOURCES[sources[i]], outcomes[sources[i]])
         \o ConcatResults(sources, outcomes, i + 1)

\* server.js:88-92, the comparator: dateB - dateA, NaN when either is invalid.
compareFn(a, b) ==
    LET dateA == NewDate(a.pubDate)
        dateB == NewDate(b.pubDate)
    IN  IF dateA.nan \/ dateB.nan
        THEN [nan |-> TRUE, n |-> 0]
        ELSE [nan |-> FALSE, n |-> dateB.t - dateA.t]

\* Array.prototype.sort's call of the comparator: NaN counts as +0.
CallCompare(x, y) ==
    LET v == compareFn(x, y) IN IF v.nan THEN 0 ELSE v.n

\* The engine's sort (V8's TimSort) on an array shorter than 64, below which
\* it merges no runs: the leading run is counted, reversed when strictly
\* descending, and the rest is inserted by binary search.  Positions are
\* 1-based here.  When every date parses the comparator is a consistent
\* order, and every stable sort has this result, whatever the length.

\* Whether the run that starts at 1 stops before idx.
RunBreaks(arr, idx, isDescending) ==
    LET order == CallCompare(arr[idx], arr[idx - 1])
    IN  (isDescending /\ order >= 0) \/ (~isDescending /\ order < 0)

RunEnd(arr, isDescending) ==
    LET breaks == {idx \in 3..Len(arr) : RunBreaks(arr, idx, isDescending)}
    IN  IF breaks = {} THEN Len(arr)
        ELSE (CHOOSE idx \in breaks : \A other \in breaks : idx <= other) - 1

RECURSIVE Reversed(_)
Reversed(s) ==
    IF Len(s) < 2 THEN s
    ELSE LET mid == Len(s) \div 2
         IN  Reversed(SubSeq(s, mid + 1, Len(s))) \o Reversed(SubSeq(s, 1, mid))

ReverseRange(arr, n) == Reversed(SubSeq(arr, 1, n)) \o SubSeq(arr, n + 1, Len(arr))

CountAndMakeRun(arr) ==
    LET isDescending == CallCompare(arr[2], arr[1]) < 0
        runLength == RunEnd(arr, isDescending)
    IN  [arr |-> IF isDescending THEN ReverseRange(arr, runLength) ELSE arr,
         runLength |-> runLength]

RECURSIVE InsertionPoint(_, _, _, _)
InsertionPoint(arr, pivot, left, right) ==
    IF left >= right THEN left
    ELSE LET mid == left + ((right - left) \div 2)
         IN  IF CallCompare(pivot, arr[mid]) < 0
             THEN InsertionPoint(arr, pivot, left, mid)
             ELSE InsertionPoint(arr, pivot, mid + 1, right)

\* One pass of the insertion loop: the element at start goes to its place
\* among the ones before it.
InsertOne(arr, start) ==
    LET pivot == arr[start]
        left == InsertionPoint(arr, pivot, 1, start)
    IN  SubSeq(arr, 1, left - 1) \o <<pivot>>
        \o SubSeq(arr, left, start - 1)
        \o SubSeq(arr, start + 1, Len(arr))

\* The insertion loop for start = lo, lo + 1, ..., hi.
RECURSIVE BinaryInsertionSort(_, _, _)
BinaryInsertionSort(arr, lo, hi) ==
    IF lo > hi THEN arr
    ELSE IF lo = hi THEN InsertOne(arr, lo)
    ELSE LET mid == (lo + hi) \div 2
             half == BinaryInsertionSort(arr, lo, mid)
         IN  IF Len(half) = Len(arr)   \* the first half is done before the second
             THEN BinaryInsertionSort(half, mid + 1, hi)
             ELSE half

\* allItems.sort(compareFn), server.js:88-92.
\* On an array of 64 items or more with an unparseable date the engine's
\* merges decide the order; the operator is not defined there.
SortItems(allItems) ==
    CASE Len(allItems) < 2 -> allItems
      [] /\ Len(allItems) >= 2
         /\ \/ Len(allItems) < 64
            \/ \A k \in 1..Len(allItems) : ~NewDate(allItems[k].pubDate).nan
         -> LET run == CountAndMakeRun(allItems)
            IN  BinaryInsertionSort(run.arr, run.runLength + 1, Len(allItems))

\* server.js:99 throws a TypeError when an item has no title.
DedupThrows(items) == \E i \in 1..Len(items) : items[i].title = Undefined

\* The loop's body with the title itself as the key.
DedupOneExactTitle(st, item) ==
    IF item.title \notin st.seenTitles
    THEN [seenTitles |-> st.seenTitles \cup {item.title},
          uniqueItems |-> Append(st.uniqueItems, item)]
    ELSE st

\* server.js:98-104, the loop's body for one item.
DedupOne(st, item) ==
    LET key == normalizedTitle(item.title)
    IN  IF key \notin st.seenTitles
        THEN [seenTitles |-> st.seenTitles \cup {key},
              uniqueItems |-> Append(st.uniqueItems, item)]
        ELSE st

\* The loop over the items lo..hi, in order.
RECURSIVE DedupFrom(_, _, _, _)
DedupFrom(items, st, lo, hi) ==
    IF lo > hi THEN st
    ELSE IF lo = hi THEN DedupOne(st, items[lo])
    ELSE LET mid == (lo + hi) \div 2
             half == DedupFrom(items, st, lo, mid)
         IN  IF Len(half.uniqueItems) >= 0   \* the first half is done before the second
             THEN DedupFrom(items, half, mid + 1, hi)
             ELSE half

\* The dedup loop started at the second item.
DedupSkipFirst(items) ==
    DedupFrom(items, [seenTitles |-> {}, uniqueItems |-> <<>>], 2, Len(items)).uniqueItems

\* server.js:95-104: keep the first item of each normalized title.
Dedup(items) ==
    DedupFrom(items, [seenTitles |-> {}, uniqueItems |-> <<>>], 1, Len(items)).uniqueItems

\* slice with the end index one too far.
SliceOneMore(items, n) == SubSeq(items, 1, IF Len(items) < n + 1 THEN Len(items) ELSE n + 1)

\* uniqueItems.slice(0, 100)
Slice(items, n) == SubSeq(items, 1, IF Len(items) < n THEN Len(items) ELSE n)

\* Whether the body of combinedRSSFeed throws (and its catch returns []).
combinedThrew(sources, outcomes) ==
    DedupThrows(SortItems(ConcatResults(sources, outcomes, 1)))

\* The aggregator failing as a whole when one fetch fails (Promise.all in
\* place of the per-source catch and Promise.allSettled).
combinedFailFast(sources, outcomes) ==
    IF \E i \in 1..Len(sources) : ~outcomes[sources[i]].ok THEN <<>>
    ELSE LET allItems == SortItems(ConcatResults(sources, outcomes, 1))
         IN  IF DedupThrows(allItems) THEN <<>>
             ELSE Slice(Dedup(allItems), MAX_ITEMS)

\* The aggregator leaving out the items without a title in place of
\* failing on them.
combinedSkipUntitled(sources, outcomes) ==
    LET titled(item) == item.title # Undefined
        allItems == SelectSeq(SortItems(ConcatResults(sources, outcomes, 1)), titled)
    IN  Slice(Dedup(allItems), MAX_ITEMS)

\* combinedRSSFeed over the listed sources (RSS_SOURCES in the program), each
\* with the outcome of its fetch.  Any exception in the body yields [].
combinedRSSFeed(sources, outcomes) ==
    LET allItems == SortItems(ConcatResults(sources, outcomes, 1))
    IN  IF DedupThrows(allItems) THEN <<>>
        ELSE Slice(Dedup(allItems), MAX_ITEMS)

-----------------------------------------------------------------------------
(* The XML renderer (server.js:116-147).                                   *)

\* server.js:121, the description's cut.
DESCRIPTION_LIMIT == 500

\* Date.prototype.toUTCString: to the second, or 'Invalid Date'.
toUTCString(d) == [invalid |-> d.nan, sec |-> IF d.nan THEN 0 ELSE d.t \div 1000]

Ellipsis == <<".", ".", ".">>

\* server.js:121
RenderDescription(description) ==
    escapeXML(SubSeq(description, 1,
                     IF Len(description) < DESCRIPTION_LIMIT
                     THEN Len(description) ELSE DESCRIPTION_LIMIT)
              \o (IF Len(description) > DESCRIPTION_LIMIT THEN Ellipsis ELSE <<>>))

\* server.js:119-133, one <item> element: the text of each child element.
RenderItem(item, t) ==
    [title       |-> escapeXML(item.title),
     link        |-> escapeXML(item.link),
     description |-> RenderDescription(item.description),
     pubDate     |-> IF item.pubDate = NoDate
                     THEN toUTCString([nan |-> FALSE, t |-> t])
                     ELSE toUTCString(NewDate(item.pubDate)),
     source      |-> escapeXML(item.source),
     category    |-> escapeXML(item.category),
     guid        |-> escapeXML(item.guid)]

\* items.map(...), server.js:119, over the items lo..hi.
RECURSIVE RenderItems(_, _, _, _)
RenderItems(items, t, lo, hi) ==
    IF lo > hi THEN <<>>
    ELSE IF lo = hi THEN <<RenderItem(items[lo], t)>>
    ELSE LET mid == (lo + hi) \div 2
         IN  RenderItems(items, t, lo, mid) \o RenderItems(items, t, mid + 1, hi)

\* generateRSSXML(items) called at time t: the document's variable parts.
generateRSSXML(items, t) ==
    [lastBuildDate |-> toUTCString([nan |-> FALSE, t |-> t]),
     items |-> RenderItems(items, t, 1, Len(items))]

-----------------------------------------------------------------------------
(* Upstream entries used as inputs.                                        *)

Entry(title, pubDate, isoDate) ==
    [title |-> title, link |-> <<"u">>, pubDate |-> pubDate, isoDate |-> isoDate,
     contentSnippet |-> Undefined, content |-> Undefined, guid |-> Undefined]

TitleFedA == <<"F","e","d"," ","U","p">>

TitleFedB == <<"f","e","d"," ","u","p","!","!">>

TitleFedC == <<"f","e","d","_","u","p">>

TitleOil == <<"O","i","l">>

AggIdle == [stage |-> "input", merged |-> <<>>, sorted |-> <<>>, threw |-> FALSE,
            unique |-> <<>>, out |-> <<>>, only |-> <<>>, again |-> <<>>,
            xml |-> [lastBuildDate |-> [invalid |-> FALSE, sec |-> 0], items |-> <<>>]]

-----------------------------------------------------------------------------
(* The server: the cache, the refreshes and the GET /rss handler.          *)
(*                                                                         *)
(* The program is single-threaded: code runs from one await to the next    *)
(* without interleaving.  The only await that waits for the outside world  *)
(* is the one on parser.parseURL (server.js:51); the awaits on             *)
(* Promise.allSettled, combinedRSSFeed and updateCache resume in the same  *)
(* turn of the event loop as the fetch that settles last.  So one step of  *)
(* the model is: a timer or a request runs up to its fetches, or one fetch *)
(* settles and everything that was waiting on it runs to its end.          *)

\* null, for the cache variables
Null == [null |-> TRUE]

\* server.js:45
CACHE_DURATION == 15 * 60 * 1000

\* server.js:224, '*/15 * * * *': every quarter of an hour of the wall clock.
CRON_PERIOD == 15 * 60 * 1000

\* How many milliseconds after a quarter of an hour the clock is followed
\* one by one (it then jumps to the next quarter).
ClockSlack == 1

\* The most aggregation runs started in one behaviour.
MaxRuns == 3

\* The most GET /rss and GET /json requests in one behaviour.
MaxReqs == 2

\* The most GET /json requests in one behaviour.
MaxJson == 1

\* The most aggregation runs in flight at a time.
MaxInFlight == 2

MaxClock == CRON_PERIOD + ClockSlack

\* What the sources serve while the server runs: the first an entry, the
\* second an entry without a title; the other two do not answer.
Served(i) ==
    IF i = 1 THEN {Feed(<<Entry(TitleFedA, DateStr(1000), NoDate)>>)}
    ELSE IF i = 2 THEN {Feed(<<Entry(Undefined, DateStr(2000), NoDate)>>)}
    ELSE {}

\* The outcomes of one fetch of source i.
Outcomes(i) == {Failed} \cup Served(i)

Pending == [settled |-> FALSE, ok |-> FALSE, items |-> <<>>]

Settled(outcome) == [settled |-> TRUE, ok |-> outcome.ok, items |-> outcome.items]

\* server.js:74: a run starts the fetch of every source.
NewRun(origin, req) ==
    [origin |-> origin, req |-> req, at |-> now, fetches |-> [i \in SourceIds |-> Pending]]

\* server.js:7-8: the parser gives up on a fetch after this many milliseconds.
FETCH_TIMEOUT == 10000

\* One more run can start.
CanStart == nextRun <= MaxRuns /\ Cardinality(DOMAIN runs) < MaxInFlight

\* Every fetch in flight can still settle at time t.
InTime(t) == \A r \in DOMAIN runs : t <= runs[r].at + FETCH_TIMEOUT

DateObj(t) == [getTime |-> t]

\* The condition of server.js:185 with the comparison dropped to the age alone.
NeedsUpdateAgeOnly(feed, update, t) ==
    IF update = Null THEN FALSE ELSE (t - update.getTime) > CACHE_DURATION

\* The condition of server.js:185 with >= for >.
NeedsUpdateAtDuration(feed, update, t) ==
    IF feed = Null \/ update = Null THEN TRUE
    ELSE (t - update.getTime) >= CACHE_DURATION

\* server.js:185
NeedsUpdate(feed, update, t) ==
    IF feed = Null \/ update = Null THEN TRUE
    ELSE (t - update.getTime) > CACHE_DURATION

\* updateCache without its line 165.
CacheWriteFeedOnly(r, items, t, old) ==
    [feed |-> generateRSSXML(items, t), update |-> old.update,
     feedBy |-> r, updateBy |-> old.updateBy]

\* updateCache that keeps the entry of a refresh started later than this one.
CacheWriteUnlessNewer(r, items, t, old) ==
    IF old.feedBy > r THEN old
    ELSE [feed |-> generateRSSXML(items, t), update |-> DateObj(t),
          feedBy |-> r, updateBy |-> r]

\* server.js:164-165, in run r at time t: the two cache variables after the
\* assignments, and which run assigned each.
CacheWrite(r, items, t, old) ==
    [feed |-> generateRSSXML(items, t), update |-> DateObj(t), feedBy |-> r, updateBy |-> r]

\* Time passes: a millisecond, or up to the next quarter of an hour, and never
\* past the time by which a fetch in flight has settled.  The scheduler fires
\* at the quarter before the clock moves on.
Tick ==
    /\ ~(now % CRON_PERIOD = 0 /\ lastCron # now)
    /\ \E d \in {1, CRON_PERIOD - (now % CRON_PERIOD)} :
          /\ d = 1 => (now % CRON_PERIOD) < ClockSlack
          /\ now + d <= MaxClock
          /\ InTime(now + d)
          /\ now' = now + d
    /\ sent' = Null
    /\ UNCHANGED <<cachedFeed, lastUpdate, cacheBy, runs, nextRun, reqs, lastCron,
                   lastDone, aggVars>>

\* server.js:224-226: the scheduler calls updateCache, which runs up to its
\* fetches.
CronFire ==
    /\ now % CRON_PERIOD = 0
    /\ lastCron # now
    /\ CanStart
    /\ lastCron' = now
    /\ runs' = (nextRun :> NewRun("cron", 0)) @@ runs
    /\ nextRun' = nextRun + 1
    /\ sent' = Null
    /\ UNCHANGED <<now, cachedFeed, lastUpdate, cacheBy, reqs, lastDone, aggVars>>

\* The age of the cache entry at time t, -1 when there is none.
CacheAge(feed, update, t) ==
    IF feed = Null \/ update = Null THEN -1 ELSE t - update.getTime

\* A request: its path, the age of the cache it read (-1 for a GET /json,
\* which reads none), the run it started (0 for none), and whether it has
\* been answered.
NewReq(path, needs, run) ==
    [path |-> path,
     found |-> IF path = "rss" THEN CacheAge(cachedFeed, lastUpdate, now) ELSE -1,
     run |-> run,
     state |-> IF needs THEN "waiting" ELSE "done"]

\* res.send(body) or res.json(body) for request q (0 for a GET /status).
Response(q, body) == [req |-> q, status |-> 200, body |-> body]

\* server.js:200-206: the body of a GET /json response at time t.
JsonBody(items, t) == [items |-> items, lastUpdated |-> t]

\* server.js:214-220: the body of a GET /status response at time t.
StatusBody(update, t) ==
    [lastUpdate |-> update,
     cacheAge |-> IF update = Null THEN [null |-> TRUE, ms |-> 0]
                  ELSE [null |-> FALSE, ms |-> t - update.getTime]]

\* server.js:182-190, a request that finds the cache empty or stale: it
\* calls updateCache and waits.
RssArriveStale ==
    /\ Len(reqs) < MaxReqs
    /\ NeedsUpdate(cachedFeed, lastUpdate, now)
    /\ CanStart
    /\ runs' = (nextRun :> NewRun("rss", Len(reqs) + 1)) @@ runs
    /\ nextRun' = nextRun + 1
    /\ reqs' = Append(reqs, NewReq("rss", TRUE, nextRun))
    /\ sent' = Null
    /\ UNCHANGED <<now, cachedFeed, lastUpdate, cacheBy, lastCron, lastDone, aggVars>>

\* A GET /rss request that finds the cache fresh and is answered only when
\* no aggregation run is in flight.
RssArriveFreshWhenIdle ==
    /\ Len(reqs) < MaxReqs
    /\ ~NeedsUpdate(cachedFeed, lastUpdate, now)
    /\ DOMAIN runs = {}
    /\ reqs' = Append(reqs, NewReq("rss", FALSE, 0))
    /\ sent' = Response(Len(reqs) + 1, cachedFeed)
    /\ UNCHANGED <<now, cachedFeed, lastUpdate, cacheBy, runs, nextRun, lastCron, lastDone,
                   aggVars>>

\* server.js:182-190, a request that finds the cache fresh: it sends what
\* is cached.
RssArriveFresh ==
    /\ Len(reqs) < MaxReqs
    /\ ~NeedsUpdate(cachedFeed, lastUpdate, now)
    /\ reqs' = Append(reqs, NewReq("rss", FALSE, 0))
    /\ sent' = Response(Len(reqs) + 1, cachedFeed)
    /\ UNCHANGED <<now, cachedFeed, lastUpdate, cacheBy, runs, nextRun, lastCron, lastDone,
                   aggVars>>

\* A GET /json that answers from what the last refresh cached while that is
\* fresh, and runs the aggregation only otherwise.
JsonArriveCached ==
    /\ Len(reqs) < MaxReqs
    /\ Cardinality({q \in 1..Len(reqs) : reqs[q].path = "json"}) < MaxJson
    /\ IF NeedsUpdate(cachedFeed, lastUpdate, now)
       THEN /\ CanStart
            /\ runs' = (nextRun :> NewRun("json", Len(reqs) + 1)) @@ runs
            /\ nextRun' = nextRun + 1
            /\ reqs' = Append(reqs, NewReq("json", TRUE, nextRun))
            /\ sent' = Null
       ELSE /\ reqs' = Append(reqs, NewReq("json", FALSE, 0))
            /\ sent' = Response(Len(reqs) + 1, JsonBody(cachedFeed.items, now))
            /\ UNCHANGED <<runs, nextRun>>
    /\ UNCHANGED <<now, cachedFeed, lastUpdate, cacheBy, lastCron, lastDone, aggVars>>

\* server.js:197-199, a GET /json request: it calls combinedRSSFeed and
\* waits.
JsonArrive ==
    /\ Len(reqs) < MaxReqs
    /\ Cardinality({q \in 1..Len(reqs) : reqs[q].path = "json"}) < MaxJson
    /\ CanStart
    /\ runs' = (nextRun :> NewRun("json", Len(reqs) + 1)) @@ runs
    /\ nextRun' = nextRun + 1
    /\ reqs' = Append(reqs, NewReq("json", TRUE, nextRun))
    /\ sent' = Null
    /\ UNCHANGED <<now, cachedFeed, lastUpdate, cacheBy, lastCron, lastDone, aggVars>>

\* server.js:213-221, a GET /status request: it is answered at once.
Status ==
    /\ sent' = Response(0, StatusBody(lastUpdate, now))
    /\ UNCHANGED <<now, cachedFeed, lastUpdate, cacheBy, runs, nextRun, reqs, lastCron,
                   lastDone, aggVars>>

\* The fetches awaited one after the other, in source order: a fetch settles
\* only when those of the sources before it have.
FetchSettlesInOrder(r, i, outcome) ==
    /\ r \in DOMAIN runs
    /\ ~runs[r].fetches[i].settled
    /\ \A j \in SourceIds : j < i => runs[r].fetches[j].settled
    /\ \E j \in SourceIds \ {i} : ~runs[r].fetches[j].settled
    /\ runs' = [runs EXCEPT ![r].fetches[i] = Settled(outcome)]
    /\ sent' = Null
    /\ UNCHANGED <<now, cachedFeed, lastUpdate, cacheBy, nextRun, reqs, lastCron,
                   lastDone, aggVars>>

\* One fetch of run r settles while others of the run are pending.
FetchSettles(r, i, outcome) ==
    /\ r \in DOMAIN runs
    /\ ~runs[r].fetches[i].settled
    /\ \E j \in SourceIds \ {i} : ~runs[r].fetches[j].settled
    /\ runs' = [runs EXCEPT ![r].fetches[i] = Settled(outcome)]
    /\ sent' = Null
    /\ UNCHANGED <<now, cachedFeed, lastUpdate, cacheBy, nextRun, reqs, lastCron,
                   lastDone, aggVars>>

\* The last fetch of run r settles and combinedRSSFeed returns.  In a
\* refresh, updateCache writes the cache (server.js:163-166) and the GET /rss
\* request that awaited it is answered (server.js:189-190); in a GET /json
\* request, the items are sent (server.js:200-206).
RunCompletes(r, i, outcome) ==
    /\ r \in DOMAIN runs
    /\ ~runs[r].fetches[i].settled
    /\ \A j \in SourceIds \ {i} : runs[r].fetches[j].settled
    /\ LET results == [runs[r].fetches EXCEPT ![i] = Settled(outcome)]
           items == combinedRSSFeed(AllSources, results)
           old == [feed |-> cachedFeed, update |-> lastUpdate,
                   feedBy |-> cacheBy.feed, updateBy |-> cacheBy.update]
           new == CacheWrite(r, items, now, old)
           q == runs[r].req
       IN  IF runs[r].origin = "json"
           THEN /\ sent' = Response(q, JsonBody(items, now))
                /\ UNCHANGED <<cachedFeed, lastUpdate, cacheBy, lastDone>>
           ELSE /\ cachedFeed' = new.feed
                /\ lastUpdate' = new.update
                /\ cacheBy' = [feed |-> new.feedBy, update |-> new.updateBy]
                /\ lastDone' = [run |-> r,
                                allFailed |-> \A j \in SourceIds : ~results[j].ok,
                                threw |-> combinedThrew(AllSources, results),
                                wrote |-> generateRSSXML(items, now)]
                /\ sent' = IF q = 0 THEN Null ELSE Response(q, new.feed)
    /\ reqs' = IF runs[r].req = 0 THEN reqs
               ELSE [reqs EXCEPT ![runs[r].req].state = "done"]
    /\ runs' = [x \in DOMAIN runs \ {r} |-> runs[x]]
    /\ UNCHANGED <<now, nextRun, lastCron, aggVars>>

\* After the module has run (server.js:229): the warm-up refresh waits for
\* its fetches, the cache is empty, the scheduler waits for the next quarter.
Init ==
    /\ now = 0
    /\ cachedFeed = Null
    /\ lastUpdate = Null
    /\ cacheBy = [feed |-> 0, update |-> 0]
    /\ runs = (1 :> NewRun("startup", 0))
    /\ nextRun = 2
    /\ reqs = <<>>
    /\ sent = Null
    /\ lastCron = 0
    /\ lastDone = Null
    /\ upstream = <<>>
    /\ agg = AggIdle

Next ==
    \/ Tick
    \/ CronFire
    \/ RssArriveStale
    \/ RssArriveFresh
    \/ JsonArrive
    \/ Status
    \/ \E r \in 1..MaxRuns : \E i \in SourceIds : \E outcome \in Outcomes(i) :
          FetchSettles(r, i, outcome)
    \/ \E r \in 1..MaxRuns : \E i \in SourceIds : \E outcome \in Outcomes(i) :
          RunCompletes(r, i, outcome)

Spec == Init /\ [][Next]_vars

\* What the settling of the fetch of source i does to the runs in flight:
\* run r goes on waiting for its other fetches, or, with its last fetch
\* settled, completes and leaves.  A step of FetchSettles(r, i, outcome) or
\* of RunCompletes(r, i, outcome) is such a step, and no other step is.
Settles(r, i) ==
    /\ r \in DOMAIN runs
    /\ ~runs[r].fetches[i].settled
    /\ \E outcome \in Outcomes(i) :
          runs' = IF \E j \in SourceIds \ {i} : ~runs[r].fetches[j].settled
                  THEN [runs EXCEPT ![r].fetches[i] = Settled(outcome)]
                  ELSE [x \in DOMAIN runs \ {r} |-> runs[x]]

\* The server with every fetch settling in the end: the parser gives up on a
\* source after its timeout (server.js:7-8), and fetchFeed turns that into a
\* result (server.js:62-65).
FairSpec ==
    Spec /\ \A r \in 1..MaxRuns : \A i \in SourceIds : WF_runs(Settles(r, i))

-----------------------------------------------------------------------------
(* The aggregation pipeline alone, on drawn inputs.                        *)

\* The most entries the sources serve together in a drawn input.
MaxEntries == 3

\* How far past the cap the long feeds go.
BigOver == 2

\* Two titles with one key, dated apart (the later one by its isoDate); an
\* undated and a pre-epoch entry; an entry whose date does not parse; an
\* entry without a title.
SmallEntries ==
    {Entry(TitleFedA, DateStr(1000), NoDate),
     Entry(TitleFedB, NoDate, DateStr(2000)),
     Entry(TitleOil, NoDate, NoDate),
     Entry(TitleOil, DateStr(-1000), NoDate),
     Entry(TitleFedC, BadDate, NoDate),
     Entry(Undefined, DateStr(1000), NoDate)}

\* The sequences of at most n small entries.  Every way to serve at most
\* MaxEntries small entries from the sources is drawn, a source without any
\* serving an empty feed or failing.
RECURSIVE EntrySeqs(_)
EntrySeqs(n) ==
    IF n = 0 THEN {<<>>}
    ELSE LET shorter == EntrySeqs(n - 1)
         IN  shorter \cup {Append(s, e) : s \in {t \in shorter : Len(t) = n - 1},
                                          e \in SmallEntries}

\* The entries of seq that owner gives to source i, in order.
RECURSIVE Owned(_, _, _, _)
Owned(seq, owner, i, k) ==
    IF k > Len(seq) THEN <<>>
    ELSE (IF owner[k] = i THEN <<seq[k]>> ELSE <<>>) \o Owned(seq, owner, i, k + 1)

\* The ways to give the entries of seq to the sources in source order.
Owners(seq) ==
    {o \in [1..Len(seq) -> SourceIds] : \A k \in 1..(Len(seq) - 1) : o[k] <= o[k + 1]}

\* The sources serve seq as owner says; a source in failing throws.
SmallInput(seq, owner, failing) ==
    [i \in SourceIds |-> IF i \in failing THEN Failed ELSE Feed(Owned(seq, owner, i, 1))]

\* The decimal digits of a natural number.
RECURSIVE Decimal(_)
Decimal(n) ==
    IF n < 10 THEN <<Digit[n + 1]>> ELSE Append(Decimal(n \div 10), Digit[(n % 10) + 1])

\* A long feed: n entries with n different titles, dated in strides over one
\* minute, and the first k of them again from a second source, in lower case
\* and dated later.
BigInput(n, stride, k) ==
    [i \in SourceIds |->
        IF i = 1
        THEN Feed([j \in 1..n |-> Entry(<<"N">> \o Decimal(j),
                                        DateStr(1000 * ((j * stride) % 60)), NoDate)])
        ELSE IF i = 2
        THEN Feed([j \in 1..k |-> Entry(<<"n">> \o Decimal(j) \o <<"!">>,
                                        DateStr(1000 * (60 + j)), NoDate)])
        ELSE IF i = 3 THEN Failed
        ELSE Feed(<<>>)]

BigInputs ==
    {BigInput(n, stride, k) : n \in (MAX_ITEMS - 1)..(MAX_ITEMS + BigOver),
                              stride \in {1, 7}, k \in {0, 2}}

\* The sources whose fetch succeeds, in RSS_SOURCES order.
RECURSIVE Succeeding(_, _)
Succeeding(outcomes, i) ==
    IF i > Len(RSS_SOURCES) THEN <<>>
    ELSE (IF outcomes[i].ok THEN <<i>> ELSE <<>>) \o Succeeding(outcomes, i + 1)

\* One aggregation run over RSS_SOURCES, its stages kept.
AggRun ==
    /\ agg.stage = "input"
    /\ LET merged == ConcatResults(AllSources, upstream, 1)
           sorted == SortItems(merged)
           threw == DedupThrows(sorted)
       IN  agg' = [agg EXCEPT !.stage = "run",
                              !.merged = merged,
                              !.sorted = sorted,
                              !.threw = threw,
                              !.unique = IF threw THEN <<>> ELSE Dedup(sorted),
                              !.out = combinedRSSFeed(AllSources, upstream)]
    /\ UNCHANGED <<upstream, serverVars>>

\* One aggregation run over the succeeding sources alone.
AggOnly ==
    /\ agg.stage = "run"
    /\ agg' = [agg EXCEPT !.stage = "only",
                          !.only = combinedRSSFeed(Succeeding(upstream, 1), upstream)]
    /\ UNCHANGED <<upstream, serverVars>>

\* The dedup step again, on what the dedup step returned.
AggAgain ==
    /\ agg.stage = "only"
    /\ ~agg.threw
    /\ agg' = [agg EXCEPT !.stage = "again", !.again = Dedup(agg.unique)]
    /\ UNCHANGED <<upstream, serverVars>>

AggInit ==
    /\ \/ \E seq \in EntrySeqs(MaxEntries) :
             \E owner \in Owners(seq) :
                \E failing \in SUBSET (SourceIds \ Range(owner)) :
                   upstream = SmallInput(seq, owner, failing)
       \/ upstream \in BigInputs
    /\ agg = AggIdle
    /\ now = 0
    /\ cachedFeed = Null
    /\ lastUpdate = Null
    /\ cacheBy = [feed |-> 0, update |-> 0]
    /\ runs = <<>>
    /\ nextRun = 1
    /\ reqs = <<>>
    /\ sent = Null
    /\ lastCron = 0
    /\ lastDone = Null

AggNext == AggRun \/ AggOnly \/ AggAgain

AggSpec == AggInit /\ [][AggNext]_vars

-----------------------------------------------------------------------------
(* One entry's fields through a run and the renderer, on drawn entries.    *)

\* The most entries the first source serves in a drawn input.
MaxFieldEntries == 1

\* Texts with the characters the renderer escapes, and one that is already
\* an entity.
TextPlain == <<"u">>

TextAmp == <<"a", "&", "b">>

TextTag == <<"<", "b", ">">>

TextQuotes == <<"\"", "'">>

TextEntity == <<"&", "a", "m", "p", ";">>

\* An upstream entry with these fields, dated.
FieldEntry(title, link, guid, content) ==
    [title |-> title, link |-> link, pubDate |-> DateStr(1000), isoDate |-> NoDate,
     contentSnippet |-> Undefined, content |-> content, guid |-> guid]

\* Entries with each field absent, plain, or with characters to escape; the
\* identifier may also be the empty string.
FieldEntries ==
    {FieldEntry(title, link, guid, content) :
        title \in {Undefined, TextPlain, TextAmp, TextTag, TextQuotes, TextEntity},
        link \in {Undefined, TextPlain, TextAmp, TextQuotes},
        guid \in {Undefined, <<>>, TextPlain, TextTag, TextEntity},
        content \in {Undefined, TextPlain, TextTag, TextQuotes, TextEntity}}

\* The feeds of 1..n drawn entries.
RECURSIVE FieldFeeds(_)
FieldFeeds(n) ==
    IF n = 0 THEN {}
    ELSE IF n = 1 THEN {<<e>> : e \in FieldEntries}
    ELSE LET shorter == FieldFeeds(n - 1)
         IN  shorter \cup {Append(f, e) : f \in {g \in shorter : Len(g) = n - 1},
                                          e \in FieldEntries}

\* generateRSSXML on what the run returned.
FieldRender ==
    /\ agg.stage = "run"
    /\ agg' = [agg EXCEPT !.stage = "rendered", !.xml = generateRSSXML(agg.out, now)]
    /\ UNCHANGED <<upstream, serverVars>>

\* The first source serves a drawn feed, the others an empty one.
FieldInit ==
    /\ \E f \in FieldFeeds(MaxFieldEntries) :
          upstream = [i \in SourceIds |-> IF i = 1 THEN Feed(f) ELSE Feed(<<>>)]
    /\ agg = AggIdle
    /\ now = 0
    /\ cachedFeed = Null
    /\ lastUpdate = Null
    /\ cacheBy = [feed |-> 0, update |-> 0]
    /\ runs = <<>>
    /\ nextRun = 1
    /\ reqs = <<>>
    /\ sent = Null
    /\ lastCron = 0
    /\ lastDone = Null

FieldNext == AggRun \/ FieldRender

FieldSpec == FieldInit /\ [][FieldNext]_vars

-----------------------------------------------------------------------------
(* The dedup step on two items whose titles are drawn over a small         *)
(* alphabet: a letter in both cases, the Kelvin sign, a digit, a space, a  *)
(* carriage return, the underscore and a punctuation mark.                 *)

MaxTitleLen == 2

KeyAlphabet == {"k", "K", "U+212A", "1", " ", "\r", "_", "!"}

\* The titles of up to n characters.
RECURSIVE Titles(_)
Titles(n) ==
    IF n = 0 THEN {<<>>}
    ELSE LET shorter == Titles(n - 1)
         IN  shorter \cup {Append(t, c) : t \in {u \in shorter : Len(u) = n - 1},
                                          c \in KeyAlphabet}

\* The first source serves two entries of the same date with drawn titles,
\* the others an empty feed.
KeyInit ==
    /\ \E first \in Titles(MaxTitleLen) : \E second \in Titles(MaxTitleLen) :
          upstream = [i \in SourceIds |->
                        IF i = 1
                        THEN Feed(<<Entry(first, DateStr(1000), NoDate),
                                    Entry(second, DateStr(1000), NoDate)>>)
                        ELSE Feed(<<>>)]
    /\ agg = AggIdle
    /\ now = 0
    /\ cachedFeed = Null
    /\ lastUpdate = Null
    /\ cacheBy = [feed |-> 0, update |-> 0]
    /\ runs = <<>>
    /\ nextRun = 1
    /\ reqs = <<>>
    /\ sent = Null
    /\ lastCron = 0
    /\ lastDone = Null

KeyNext == AggRun

KeySpec == KeyInit /\ [][KeyNext]_vars

-----------------------------------------------------------------------------
(* Properties of the cache and of GET /rss (under Spec).                   *)

\* C1: a GET /rss request that finds the cache entry older than
\* CACHE_DURATION (strictly), or finds none, starts exactly one refresh; that
\* refresh replaces the cache entry before the response is sent, and the
\* response body is the entry after the replacement.
C1_StaleRefreshes ==
    [][LET age == CacheAge(cachedFeed, lastUpdate, now)
           arrives == Len(reqs') = Len(reqs) + 1
           rss(req) == req.path = "rss"
           started == DOMAIN runs' \ DOMAIN runs
           completed == DOMAIN runs \ DOMAIN runs'
       IN  \* the arrival starts exactly one run and is not answered yet
           /\ (arrives /\ rss(reqs'[Len(reqs')]) /\ (age = -1 \/ age > CACHE_DURATION)) =>
                 /\ Cardinality(started) = 1
                 /\ \A r \in started :
                       runs'[r].req = Len(reqs') /\ reqs'[Len(reqs')].run = r
                 /\ reqs'[Len(reqs')].state = "waiting"
                 /\ sent' = Null
           \* no later step starts a run for a request
           /\ \A r \in started :
                 runs'[r].req # 0 => arrives /\ runs'[r].req = Len(reqs')
           \* the answer is sent in the step in which the request's run
           \* replaces the entry, and is the entry after the replacement
           /\ \A q \in 1..Len(reqs) :
                 (rss(reqs[q]) /\ reqs[q].state = "waiting" /\ reqs'[q].state = "done") =>
                     /\ completed = {reqs[q].run}
                     /\ cacheBy' = [feed |-> reqs[q].run, update |-> reqs[q].run]
                     /\ cachedFeed' = lastDone'.wrote
                     /\ lastUpdate' = DateObj(now)
                     /\ sent' = Response(q, cachedFeed')]_vars

\* A request that found the entry one millisecond past CACHE_DURATION has
\* been answered with the entry its own refresh wrote.
C1_Witness ==
    \E q \in 1..Len(reqs) :
        /\ reqs[q].path = "rss"
        /\ reqs[q].found = CACHE_DURATION + 1
        /\ reqs[q].state = "done"
        /\ cacheBy.feed = reqs[q].run
        /\ sent = Response(q, cachedFeed)

\* C2: a GET /rss request that finds a cache entry no older than
\* CACHE_DURATION starts no run, leaves cachedFeed and lastUpdate as they
\* are, and is answered with the stored cachedFeed.
C2_FreshIsNoOp ==
    [][LET age == CacheAge(cachedFeed, lastUpdate, now)
           arrives == Len(reqs') = Len(reqs) + 1
       IN  (arrives /\ reqs'[Len(reqs')].path = "rss" /\ age >= 0 /\ age <= CACHE_DURATION) =>
               /\ UNCHANGED <<cachedFeed, lastUpdate, cacheBy, runs, nextRun>>
               /\ reqs'[Len(reqs')].run = 0
               /\ reqs'[Len(reqs')].state = "done"
               /\ sent' = Response(Len(reqs'), cachedFeed)]_vars

\* A request that found the entry exactly CACHE_DURATION old has been
\* answered from the cache without a run.
C2_Witness ==
    \E q \in 1..Len(reqs) :
        /\ reqs[q].path = "rss"
        /\ reqs[q].found = CACHE_DURATION
        /\ reqs[q].run = 0
        /\ reqs[q].state = "done"
        /\ sent = Response(q, cachedFeed)

\* C3: a refresh whose aggregation run fails (every source fails, or an
\* exception is raised past the fetches) leaves the cache entry as it was: a
\* populated pair is kept, and an empty cache stays empty.
C3_FailedRefreshKeepsCache ==
    [][(IF \A r \in DOMAIN runs \ DOMAIN runs' : runs[r].origin = "json" THEN FALSE
        ELSE lastDone'.allFailed \/ lastDone'.threw)
       => UNCHANGED <<cachedFeed, lastUpdate>>]_vars

\* C4: cachedFeed and lastUpdate are both null or both set, and when set
\* they were written by the same updateCache step.
C4_CachePaired ==
    /\ cachedFeed = Null <=> lastUpdate = Null
    /\ cacheBy.feed = cacheBy.update
    /\ cachedFeed # Null => cacheBy.feed >= 1

\* A refresh has replaced the entry of an earlier one while another refresh
\* is in flight.
C4_Witness ==
    /\ cachedFeed # Null
    /\ cacheBy.feed >= 2
    /\ DOMAIN runs # {}

\* C11: when an exception is raised in an aggregation run past the fetches
\* (here: an entry without a title, already fetched, makes the dedup step
\* throw), the GET /json or GET /rss request that ran the aggregation is
\* answered with HTTP 500.
C11_AggregationErrorIs500 ==
    [][\A r \in DOMAIN runs \ DOMAIN runs' :
          ( /\ runs[r].req # 0
            /\ \E i \in SourceIds :
                  /\ runs[r].fetches[i].settled
                  /\ \E k \in 1..Len(runs[r].fetches[i].items) :
                        runs[r].fetches[i].items[k].title = Undefined )
          => sent'.status = 500]_vars

\* C12: every GET /json request starts a new aggregation run of its own,
\* whatever the age of the cache, and is answered with that run's items;
\* neither its arrival nor its answer changes cachedFeed or lastUpdate.
C12_JsonBypassesCache ==
    [][LET arrives == Len(reqs') = Len(reqs) + 1
           started == DOMAIN runs' \ DOMAIN runs
           completed == DOMAIN runs \ DOMAIN runs'
       IN  /\ (arrives /\ reqs'[Len(reqs')].path = "json") =>
                 /\ Cardinality(started) = 1
                 /\ \A r \in started :
                       /\ runs'[r].req = Len(reqs')
                       /\ reqs'[Len(reqs')].run = r
                       /\ \A i \in SourceIds : ~runs'[r].fetches[i].settled
                 /\ reqs'[Len(reqs')].state = "waiting"
                 /\ sent' = Null
                 /\ UNCHANGED <<cachedFeed, lastUpdate>>
           /\ \A q \in 1..Len(reqs) :
                 (reqs[q].path = "json" /\ reqs[q].state = "waiting"
                     /\ reqs'[q].state = "done") =>
                     /\ completed = {reqs[q].run}
                     /\ \E i \in SourceIds : \E outcome \in Outcomes(i) :
                           /\ ~runs[reqs[q].run].fetches[i].settled
                           /\ sent' = Response(q, JsonBody(
                                 combinedRSSFeed(AllSources,
                                     [runs[reqs[q].run].fetches
                                         EXCEPT ![i] = Settled(outcome)]),
                                 now))
                     /\ UNCHANGED <<cachedFeed, lastUpdate>>]_vars

\* A GET /json request that arrived while the entry cached by the startup
\* refresh was fresh has been answered with items of a run of its own.
C12_Witness ==
    /\ sent # Null
    /\ sent.req # 0
    /\ reqs[sent.req].path = "json"
    /\ reqs[sent.req].state = "done"
    /\ sent.body.items # <<>>
    /\ now >= CRON_PERIOD
    /\ cachedFeed # Null
    /\ cacheBy.feed = 1
    /\ now - lastUpdate.getTime <= CACHE_DURATION

\* C15: overlapping refreshes do not suppress or wait for one another.  A
\* stale GET /rss that arrives while refreshes are in flight starts a run of
\* its own, with every fetch of its own pending, and leaves the other runs as
\* they are; each refresh writes the cache in the step in which it finishes,
\* whichever others are in flight; so the cache entry is always the one
\* written by the refresh that finished last.
C15_LastFinishedWins ==
    [][LET started == DOMAIN runs' \ DOMAIN runs
           completed == DOMAIN runs \ DOMAIN runs'
           age == CacheAge(cachedFeed, lastUpdate, now)
       IN  /\ ( /\ Len(reqs') = Len(reqs) + 1
                /\ reqs'[Len(reqs')].path = "rss"
                /\ (age = -1 \/ age > CACHE_DURATION) ) =>
                 /\ Cardinality(started) = 1
                 /\ \A r \in started : \A i \in SourceIds : ~runs'[r].fetches[i].settled
                 /\ \A r \in DOMAIN runs : r \in DOMAIN runs' /\ runs'[r] = runs[r]
           /\ \A r \in completed :
                 runs[r].origin # "json" =>
                     /\ lastDone'.run = r
                     /\ cacheBy' = [feed |-> r, update |-> r]
                     /\ cachedFeed' = lastDone'.wrote
                     /\ lastUpdate' = DateObj(now)
                     /\ \A x \in DOMAIN runs \ {r} : x \in DOMAIN runs' /\ runs'[x] = runs[x]
           /\ lastDone' # Null =>
                 /\ cacheBy' = [feed |-> lastDone'.run, update |-> lastDone'.run]
                 /\ cachedFeed' = lastDone'.wrote]_vars

\* The startup refresh and the refresh of a GET /rss request overlapped; the
\* request's refresh finished first and the startup refresh last, and the
\* cache holds what the startup refresh wrote.
C15_Witness ==
    /\ DOMAIN runs = {}
    /\ lastDone # Null
    /\ lastDone.run = 1
    /\ cacheBy.feed = 1
    /\ cachedFeed = lastDone.wrote
    /\ \E q \in 1..Len(reqs) :
          reqs[q].path = "rss" /\ reqs[q].run = 2 /\ reqs[q].state = "done"

\* C16: a run starts with a fetch of every source pending; a fetch that has
\* settled stays as it settled (one fetch per source, no retry); the run is
\* merged only in the step in which its last pending fetch settles, and what
\* it returns is the aggregation of what every fetch settled to; and while
\* two or more fetches of a run are pending, each of them can settle (with
\* any of its outcomes) whatever the others do.
C16_FetchAllThenMerge ==
    [][LET started == DOMAIN runs' \ DOMAIN runs
           completed == DOMAIN runs \ DOMAIN runs'
           pending(run) == {i \in SourceIds : ~run.fetches[i].settled}
       IN  /\ \A r \in started :
                 DOMAIN runs'[r].fetches = SourceIds /\ pending(runs'[r]) = SourceIds
           /\ \A r \in DOMAIN runs \cap DOMAIN runs' : \A i \in SourceIds :
                 runs[r].fetches[i].settled => runs'[r].fetches[i] = runs[r].fetches[i]
           /\ \A r \in completed :
                 /\ Cardinality(pending(runs[r])) = 1
                 /\ \E i \in pending(runs[r]) : \E outcome \in Outcomes(i) :
                       LET items == combinedRSSFeed(AllSources,
                                       [runs[r].fetches EXCEPT ![i] = Settled(outcome)])
                       IN  IF runs[r].origin = "json"
                           THEN sent'.body.items = items
                           ELSE cachedFeed' = generateRSSXML(items, now)
           /\ \A r \in DOMAIN runs : \A i \in pending(runs[r]) :
                 Cardinality(pending(runs[r])) >= 2 =>
                     \A outcome \in Outcomes(i) : ENABLED FetchSettles(r, i, outcome)]_vars

\* The run of a GET /json request was answered with an item of the first
\* source although the other three sources had failed.
C16_Witness ==
    /\ sent # Null
    /\ sent.req # 0
    /\ reqs[sent.req].path = "json"
    /\ Len(sent.body.items) = 1
    /\ sent.body.items[1].title = TitleFedA

\* C17 as stated: a GET /rss request that arrives before the startup refresh
\* has written the cache finds the cache empty, starts a refresh of its own
\* and is not answered in that step; whenever a GET /rss request is answered,
\* a cache entry has been written and the body is that entry, never null.
C17_BeforeStartupWrite ==
    [][/\ ( /\ Len(reqs') = Len(reqs) + 1
            /\ reqs'[Len(reqs')].path = "rss"
            /\ 1 \in DOMAIN runs ) =>
              /\ cachedFeed = Null
              /\ \E r \in DOMAIN runs' \ DOMAIN runs :
                    /\ runs'[r].origin = "rss"
                    /\ runs'[r].req = Len(reqs')
                    /\ DOMAIN runs' = DOMAIN runs \cup {r}
              /\ reqs'[Len(reqs')].state = "waiting"
              /\ sent' = Null
       /\ (IF sent' = Null THEN FALSE
           ELSE IF sent'.req = 0 THEN FALSE
           ELSE reqs'[sent'.req].path = "rss") =>
              /\ cachedFeed' # Null
              /\ lastUpdate' # Null
              /\ sent'.body # Null
              /\ sent'.body = cachedFeed']_vars

\* C17, amended: a GET /rss request that arrives while the cache is still
\* empty starts a refresh of its own and is not answered in that step.  A
\* request that arrives before the startup refresh has written, and finds a
\* cache entry, finds the entry of an earlier request's refresh, and is
\* answered from it at once when it is fresh, with no refresh started.
\* Whenever a GET /rss request is answered, a cache entry has been written
\* and the body is that entry, never null.
C17_NoAnswerBeforeCache ==
    [][/\ ( /\ Len(reqs') = Len(reqs) + 1
            /\ reqs'[Len(reqs')].path = "rss"
            /\ (cachedFeed = Null \/ lastUpdate = Null) ) =>
              /\ \E r \in DOMAIN runs' \ DOMAIN runs :
                    /\ runs'[r].origin = "rss"
                    /\ runs'[r].req = Len(reqs')
                    /\ DOMAIN runs' = DOMAIN runs \cup {r}
              /\ reqs'[Len(reqs')].state = "waiting"
              /\ sent' = Null
       /\ ( /\ Len(reqs') = Len(reqs) + 1
            /\ reqs'[Len(reqs')].path = "rss"
            /\ 1 \in DOMAIN runs
            /\ cachedFeed # Null ) =>
              /\ \E q \in 1..Len(reqs) :
                    /\ reqs[q].path = "rss"
                    /\ reqs[q].state = "done"
                    /\ reqs[q].run = cacheBy.feed
              /\ ~NeedsUpdate(cachedFeed, lastUpdate, now) =>
                    /\ runs' = runs
                    /\ sent' # Null
                    /\ sent'.req = Len(reqs')
                    /\ sent'.body = cachedFeed
       /\ (IF sent' = Null THEN FALSE
           ELSE IF sent'.req = 0 THEN FALSE
           ELSE reqs'[sent'.req].path = "rss") =>
              /\ cachedFeed' # Null
              /\ lastUpdate' # Null
              /\ sent'.body # Null
              /\ sent'.body = cachedFeed']_vars

\* A GET /rss request that found the cache empty has been answered by its own
\* refresh while the startup refresh is still in flight.
C17_Witness ==
    /\ 1 \in DOMAIN runs
    /\ sent # Null
    /\ sent.req # 0
    /\ reqs[sent.req].path = "rss"
    /\ reqs[sent.req].found = -1
    /\ reqs[sent.req].state = "done"
    /\ cacheBy.feed = reqs[sent.req].run
    /\ sent.body = cachedFeed

\* C18: when every fetch settles in the end, no aggregation run stays in
\* flight for ever (a run's number is not used again, so the run completes)
\* and no GET /rss or GET /json request stays unanswered for ever; a run in
\* flight delays only its own request: GET /status is answered in any state,
\* and a GET /rss that finds the cache fresh is answered in the step in which
\* it arrives, with the runs in flight left as they are.
C18_NoBlocking ==
    /\ \A r \in 1..MaxRuns : []<>(r \notin DOMAIN runs)
    /\ \A q \in 1..MaxReqs : []<>(q <= Len(reqs) => reqs[q].state = "done")
    /\ [](ENABLED Status)
    /\ []((Len(reqs) < MaxReqs /\ ~NeedsUpdate(cachedFeed, lastUpdate, now))
             => ENABLED RssArriveFresh)
    /\ [][( /\ Len(reqs') = Len(reqs) + 1
            /\ reqs'[Len(reqs')].path = "rss"
            /\ ~NeedsUpdate(cachedFeed, lastUpdate, now) ) =>
              /\ sent' # Null
              /\ sent'.req = Len(reqs')
              /\ reqs'[Len(reqs')].state = "done"
              /\ runs' = runs]_vars

\* A GET /rss request has just been answered from the fresh cache while an
\* earlier request still waits for its run.
C18_Witness ==
    /\ Len(reqs) = 2
    /\ reqs[1].state = "waiting"
    /\ reqs[1].run \in DOMAIN runs
    /\ \E i \in SourceIds : ~runs[reqs[1].run].fetches[i].settled
    /\ reqs[2].path = "rss"
    /\ reqs[2].run = 0
    /\ reqs[2].state = "done"
    /\ sent # Null
    /\ sent.req = 2

\* C20: a run that completes with an untitled item among its results returns
\* no items, and no error: a GET /json request is answered 200 with an empty
\* item list, and a refresh stores a document without items in the cache,
\* dated now.
C20_UntitledEmptiesRun ==
    [][\A r \in DOMAIN runs \ DOMAIN runs' :
          ( \/ \E i \in SourceIds :
                  /\ runs[r].fetches[i].settled
                  /\ \E k \in 1..Len(runs[r].fetches[i].items) :
                        runs[r].fetches[i].items[k].title = Undefined
            \/ IF runs[r].origin = "json" \/ lastDone' = Null THEN FALSE
               ELSE lastDone'.run = r /\ lastDone'.threw )
          => IF runs[r].origin = "json"
             THEN /\ sent'.req = runs[r].req
                  /\ sent'.status = 200
                  /\ sent'.body.items = <<>>
                  /\ UNCHANGED <<cachedFeed, lastUpdate>>
             ELSE /\ cachedFeed' # Null
                  /\ cachedFeed'.items = <<>>
                  /\ cachedFeed' = generateRSSXML(<<>>, now)
                  /\ lastUpdate' = DateObj(now)
                  /\ lastDone'.threw]_vars

\* A refresh in which a source succeeded and an untitled item made the run
\* return nothing has written the cache.
C20_Witness ==
    /\ lastDone # Null
    /\ lastDone.threw
    /\ ~lastDone.allFailed
    /\ cacheBy.feed = lastDone.run
    /\ cachedFeed # Null
    /\ cachedFeed.items = <<>>
    /\ lastDone.wrote = cachedFeed

-----------------------------------------------------------------------------
(* Properties of one aggregation run (under AggSpec).                      *)

\* C5: a run in which some sources fail returns the items of the run over
\* the succeeding sources alone, and [] when every source fails.
C5_PartialFailure ==
    agg.stage \in {"only", "again"} =>
        /\ agg.out = agg.only
        /\ (\A i \in SourceIds : ~upstream[i].ok) => agg.out = <<>>

\* A source failed, another served items, and the run returned items.
C5_Witness ==
    /\ agg.stage = "only"
    /\ \E i \in SourceIds : ~upstream[i].ok
    /\ \E i \in SourceIds : upstream[i].ok /\ upstream[i].items # <<>>
    /\ agg.out # <<>>

\* C6: no two items of a run's output have the same normalized title key.
C6_DistinctKeys ==
    agg.stage # "input" =>
        \A i, j \in 1..Len(agg.out) :
            i # j => normalizedTitle(agg.out[i].title) # normalizedTitle(agg.out[j].title)

\* The dedup step dropped an item and the output keeps two or more.
C6_Witness ==
    /\ agg.stage # "input"
    /\ Len(agg.out) >= 2
    /\ Len(agg.unique) < Len(agg.sorted)

\* C7: of the fetched items with one normalized title key, the output keeps
\* the one published last (absent being the oldest).  Only items whose
\* publishedAt is a time stamp or absent are compared.
C7_KeepsLatest ==
    LET ranked(item) == item.pubDate.kind # "unparseable"
        notLater(a, b) ==
            \/ a.pubDate = NoDate
            \/ b.pubDate # NoDate /\ a.pubDate.ms <= b.pubDate.ms
    IN  (agg.stage # "input" /\ ~agg.threw) =>
            \A i \in 1..Len(agg.out) : \A j \in 1..Len(agg.merged) :
                ( /\ normalizedTitle(agg.merged[j].title)
                        = normalizedTitle(agg.out[i].title)
                  /\ ranked(agg.out[i]) /\ ranked(agg.merged[j]) )
                => notLater(agg.merged[j], agg.out[i])

\* C8: the output is ordered by publishedAt, newest first, an item without
\* one after every dated item.  Only items whose publishedAt is a time stamp
\* or absent are compared.
C8_SortedNewestFirst ==
    LET ranked(item) == item.pubDate.kind # "unparseable"
        notLater(a, b) ==
            \/ a.pubDate = NoDate
            \/ b.pubDate # NoDate /\ a.pubDate.ms <= b.pubDate.ms
    IN  agg.stage # "input" =>
            \A i, j \in 1..Len(agg.out) :
                (i < j /\ ranked(agg.out[i]) /\ ranked(agg.out[j]))
                => notLater(agg.out[j], agg.out[i])

\* C9: a run returns at most 100 items, the first 100 of the sorted,
\* deduplicated sequence.
C9_Cap ==
    agg.stage # "input" =>
        /\ Len(agg.out) <= 100
        /\ agg.out = SubSeq(agg.unique, 1, IF Len(agg.unique) < 100 THEN Len(agg.unique) ELSE 100)

\* More than 100 items survive the dedup step and the run returns 100.
C9_Witness ==
    /\ agg.stage # "input"
    /\ Len(agg.unique) > 100
    /\ Len(agg.out) = 100

\* C10: the dedup step applied to its own output returns it unchanged.
C10_DedupIdempotent ==
    agg.stage = "again" => agg.again = agg.unique

\* The dedup step ran twice on a sequence it had shortened to two or more.
C10_Witness ==
    /\ agg.stage = "again"
    /\ Len(agg.unique) >= 2
    /\ Len(agg.unique) < Len(agg.sorted)

-----------------------------------------------------------------------------
(* Properties of an item's fields (under FieldSpec).                       *)

\* C13: every item a run returns has a non-empty guid: the identifier of
\* its upstream entry when the entry has one, otherwise the entry's link.
C13_GuidNonEmpty ==
    agg.stage # "input" =>
        \A k \in 1..Len(agg.out) :
            /\ agg.out[k].guid # Undefined
            /\ agg.out[k].guid # <<>>
            /\ \E j \in 1..Len(upstream[1].items) :
                  LET e == upstream[1].items[j]
                  IN  /\ agg.out[k].title = e.title
                      /\ agg.out[k].link = e.link
                      /\ agg.out[k].guid =
                            (IF e.guid # Undefined /\ e.guid # <<>> THEN e.guid ELSE e.link)

\* C14: in the rendered document, each of an item's fields title, link,
\* description, source, category and guid is the field's text with every
\* &, <, >, " and ' replaced by its entity, each character once (so that an
\* entity already in the text is escaped again), and holds no raw <, >, "
\* or '.
C14_FieldsEscaped ==
    LET entity(c) ==
            IF c = "&" THEN <<"&", "a", "m", "p", ";">>
            ELSE IF c = "<" THEN <<"&", "l", "t", ";">>
            ELSE IF c = ">" THEN <<"&", "g", "t", ";">>
            ELSE IF c = "\"" THEN <<"&", "q", "u", "o", "t", ";">>
            ELSE IF c = "'" THEN <<"&", "#", "3", "9", ";">>
            ELSE <<c>>
        RECURSIVE escaped(_)
        escaped(text) ==
            IF text = Undefined \/ text = <<>> THEN <<>>
            ELSE entity(Head(text)) \o escaped(Tail(text))
        clean(text) == \A i \in 1..Len(text) : text[i] \notin {"<", ">", "\"", "'"}
        fields == {"title", "link", "description", "source", "category", "guid"}
    IN  agg.stage = "rendered" =>
            /\ Len(agg.xml.items) = Len(agg.out)
            /\ \A k \in 1..Len(agg.out) : \A f \in fields :
                  /\ agg.xml.items[k][f] = escaped(agg.out[k][f])
                  /\ clean(agg.xml.items[k][f])

\* An item was rendered whose title is already an entity, escaped again, and
\* whose guid holds a tag.
C14_Witness ==
    /\ agg.stage = "rendered"
    /\ Len(agg.out) = 1
    /\ agg.out[1].title = TextEntity
    /\ agg.xml.items[1].title = <<"&", "a", "m", "p", ";", "a", "m", "p", ";">>
    /\ agg.out[1].guid = TextTag
    /\ agg.xml.items[1].guid = <<"&", "l", "t", ";", "b", "&", "g", "t", ";">>

-----------------------------------------------------------------------------
(* Properties of the dedup key (under KeySpec).                            *)

\* C19: the dedup step keeps one of two items exactly when their titles,
\* lower-cased and with every character removed that is not a letter, a
\* digit or white space, are equal.
C19_KeyAsDefined ==
    agg.stage = "run" =>
        LET first == upstream[1].items[1].title
            second == upstream[1].items[2].title
            kept(c) == c \in Range(LowerCase) \cup Range(UpperCase) \cup Range(Digit)
                             \cup {" ", "\t", "\n", "\r", "\f"}
            RECURSIVE letters(_)
            letters(t) ==
                IF t = <<>> THEN <<>>
                ELSE (IF kept(Head(t)) THEN <<Head(t)>> ELSE <<>>) \o letters(Tail(t))
            key(t) == letters(toLowerCase(t))
        IN  (Len(agg.out) = 1) <=> (key(first) = key(second))

=============================================================================
